---- MODULE Spec2Model ----
(***************************************************************************)
(* Model of generate.py, the static-site generator: loading the city       *)
(* records, the per-mode URL helpers, the price scaling and the build of   *)
(* one site (pages, robots.txt, sitemap.xml) for the selected mode.        *)
(*                                                                         *)
(* Strings are sequences of one-character strings, so that slugify, strip, *)
(* lower/upper, replace and startswith are computed as the code computes   *)
(* them.  A cost index is an IEEE-754 double, and sums, quotients and      *)
(* products of doubles are rounded as the hardware rounds them.            *)
(***************************************************************************)
EXTENDS Integers, Sequences, FiniteSets, TLC

\* ---------------------------------------------------------------- bounds
MaxCities == 2

\* ------------------------------------------------------- string helpers
UpperLetters == <<"A","B","C","D","E","F","G","H","I","J","K","L","M","N","O","P","Q","R","S","T","U","V","W","X","Y","Z">>
LowerLetters == <<"a","b","c","d","e","f","g","h","i","j","k","l","m","n","o","p","q","r","s","t","u","v","w","x","y","z">>
Digits == <<"0","1","2","3","4","5","6","7","8","9">>

Range(s) == {s[i] : i \in DOMAIN s}

IndexIn(c, s) == CHOOSE i \in DOMAIN s : s[i] = c

\* str.lower() on one character
LowerChar(c) == IF c \in Range(UpperLetters) THEN LowerLetters[IndexIn(c, UpperLetters)] ELSE c

\* str.upper() on one character
UpperChar(c) == IF c \in Range(LowerLetters) THEN UpperLetters[IndexIn(c, LowerLetters)] ELSE c

Lower(s) == [i \in DOMAIN s |-> LowerChar(s[i])]

Upper(s) == [i \in DOMAIN s |-> UpperChar(s[i])]

\* the characters str.strip() removes (those that occur in the inputs)
WhiteSpace == {" ", "\t", "\n"}

RECURSIVE LStripSet(_, _)
LStripSet(s, cs) == IF s # <<>> /\ Head(s) \in cs THEN LStripSet(Tail(s), cs) ELSE s

RECURSIVE RStripSet(_, _)
RStripSet(s, cs) ==
  IF s # <<>> /\ s[Len(s)] \in cs THEN RStripSet(SubSeq(s, 1, Len(s) - 1), cs) ELSE s

\* str.strip(chars)
StripSet(s, cs) == RStripSet(LStripSet(s, cs), cs)

\* str.strip()
Strip(s) == StripSet(s, WhiteSpace)

StartsWith(s, p) == Len(s) >= Len(p) /\ SubSeq(s, 1, Len(p)) = p

\* str.replace(old, new), old non-empty
RECURSIVE Replace(_, _, _)
Replace(s, old, new) ==
  IF Len(s) < Len(old) THEN s
  ELSE IF StartsWith(s, old)
       THEN new \o Replace(SubSeq(s, Len(old) + 1, Len(s)), old, new)
       ELSE <<Head(s)>> \o Replace(Tail(s), old, new)

\* str.split(sep)[0] for a one-character separator
RECURSIVE SplitFirst(_, _)
SplitFirst(s, sep) ==
  IF s = <<>> \/ Head(s) = sep THEN <<>> ELSE <<Head(s)>> \o SplitFirst(Tail(s), sep)

\* re.sub(r"[^a-z0-9]+", "-", s): every maximal run of other characters
\* becomes one hyphen
SlugChars == Range(LowerLetters) \cup Range(Digits)

RECURSIVE SubNonSlugRuns(_, _)
SubNonSlugRuns(s, inRun) ==
  IF s = <<>> THEN <<>>
  ELSE IF Head(s) \in SlugChars
       THEN <<Head(s)>> \o SubNonSlugRuns(Tail(s), FALSE)
       ELSE (IF inRun THEN <<>> ELSE <<"-">>) \o SubNonSlugRuns(Tail(s), TRUE)

\* re.sub(r"-{2,}", "-", s)
RECURSIVE CollapseHyphens(_)
CollapseHyphens(s) ==
  IF Len(s) < 2 THEN s
  ELSE IF s[1] = "-" /\ s[2] = "-" THEN CollapseHyphens(Tail(s))
       ELSE <<Head(s)>> \o CollapseHyphens(Tail(s))

\* slugify without the final strip("-")
slugify_NoHyphenStrip(s) ==
  LET s1 == Lower(Strip(s))
      s2 == Replace(s1, <<"&">>, <<" ","a","n","d"," ">>)
      s3 == SubNonSlugRuns(s2, FALSE)
  IN  CollapseHyphens(s3)

slugify(s) ==
  LET s1 == Lower(Strip(s))
      s2 == Replace(s1, <<"&">>, <<" ","a","n","d"," ">>)
      s3 == SubNonSlugRuns(s2, FALSE)
  IN  StripSet(CollapseHyphens(s3), {"-"})

\* ------------------------------------------------------------ SiteConfig
brand_name ==
  <<"E","m","e","r","g","e","n","c","y"," ","M","a","i","n","t","e","n","a","n","c","e"," ","E","x","p","e","r","t","s">>

cost_title ==
  <<"E","m","e","r","g","e","n","c","y"," ","M","a","i","n","t","e","n","a","n","c","e"," ","C","o","s","t">>

howto_title ==
  <<"H","o","w"," ","E","m","e","r","g","e","n","c","y"," ","M","a","i","n","t","e","n","a","n","c","e"," ","W","o","r","k","s">>

cost_low == 80

cost_high == 250

image_filename == "man-performing-emergency-maintenance.webp"

FAVICON_FILES ==
  <<"favicon.ico", "favicon.svg", "favicon-16x16.png", "favicon-32x32.png", "apple-touch-icon.png">>

HttpsPrefix == <<"h","t","t","p","s",":","/","/">>

HttpPrefix == <<"h","t","t","p",":","/","/">>

get_domain_name ==
  HttpsPrefix \o Replace(Lower(brand_name), <<" ">>, <<>>) \o <<".","c","o","m">>

SITE_ORIGIN == get_domain_name

cost_slug == slugify(cost_title)

howto_slug == slugify(howto_title)

VALID_MODES == {"regular", "cost", "state", "subdomain", "regular_city_only"}

\* MODE_FEATURES with cost pages switched on in subdomain mode
MODE_FEATURES_SubdomainCost ==
  [regular           |-> [cost |-> TRUE,  howto |-> TRUE,  contact |-> TRUE],
   cost              |-> [cost |-> TRUE,  howto |-> FALSE, contact |-> TRUE],
   state             |-> [cost |-> FALSE, howto |-> FALSE, contact |-> TRUE],
   subdomain         |-> [cost |-> TRUE,  howto |-> FALSE, contact |-> TRUE],
   regular_city_only |-> [cost |-> FALSE, howto |-> FALSE, contact |-> TRUE]]

MODE_FEATURES ==
  [regular           |-> [cost |-> TRUE,  howto |-> TRUE,  contact |-> TRUE],
   cost              |-> [cost |-> TRUE,  howto |-> FALSE, contact |-> TRUE],
   state             |-> [cost |-> FALSE, howto |-> FALSE, contact |-> TRUE],
   subdomain         |-> [cost |-> FALSE, howto |-> FALSE, contact |-> TRUE],
   regular_city_only |-> [cost |-> FALSE, howto |-> FALSE, contact |-> TRUE]]

\* feature always answering with the flags of regular mode
feature_RegularDefault(mode, key) == MODE_FEATURES["regular"][key]

feature(mode, key) ==
  IF mode \in DOMAIN MODE_FEATURES THEN MODE_FEATURES[mode][key] ELSE MODE_FEATURES["regular"][key]

\* ------------------------------------------------------------- arithmetic
\* Python floats are IEEE-754 doubles.  A non-negative double is modelled by
\* its 53-bit significand m (most significant bit first, m[1] = 1) and the
\* exponent e of its last bit: its value is m * 2^e; zero has m = <<>>.
\* Every operation rounds to nearest, ties to even, as the hardware does.
Zeros(n) == [k \in 1..n |-> 0]

Reverse(s) == [k \in 1..Len(s) |-> s[Len(s) + 1 - k]]

StripLeadingZeros(s) ==
  LET ones == {k \in DOMAIN s : s[k] = 1}
  IN  IF ones = {} THEN <<>>
      ELSE SubSeq(s, CHOOSE k \in ones : \A j \in ones : k <= j, Len(s))

RECURSIVE BitsOfNat(_)
BitsOfNat(n) == IF n = 0 THEN <<>> ELSE BitsOfNat(n \div 2) \o <<n % 2>>

RECURSIVE NatOfBits(_)
NatOfBits(s) == IF s = <<>> THEN 0 ELSE 2 * NatOfBits(SubSeq(s, 1, Len(s) - 1)) + s[Len(s)]

\* the value of at most 16 bits, least significant bit first
RECURSIVE ValLSB(_)
ValLSB(s) == IF s = <<>> THEN 0 ELSE Head(s) + 2 * ValLSB(Tail(s))

\* the w low bits of v, least significant bit first
BitsLSB(v, w) == [j \in 1..w |-> (v \div 2^(j - 1)) % 2]

\* the first w elements of s (all of s if it is shorter), and the rest
Take(s, w) == SubSeq(s, 1, IF Len(s) < w THEN Len(s) ELSE w)

Drop(s, w) == SubSeq(s, w + 1, Len(s))

\* a + b + c on bit strings, least significant bit first, 16 bits at a time
RECURSIVE AddLSB(_, _, _)
AddLSB(a, b, c) ==
  IF a = <<>> /\ b = <<>> THEN (IF c = 0 THEN <<>> ELSE <<c>>)
  ELSE LET longest == IF Len(a) < Len(b) THEN Len(b) ELSE Len(a)
           w       == IF longest < 16 THEN longest ELSE 16
           t       == ValLSB(Take(a, w)) + ValLSB(Take(b, w)) + c
       IN  BitsLSB(t, w) \o AddLSB(Drop(a, w), Drop(b, w), t \div 2^w)

BitsAdd(a, b) == Reverse(AddLSB(Reverse(a), Reverse(b), 0))

\* a * k + c for a natural k < 2^14, least significant bit first, 16 bits
\* at a time
RECURSIVE MulLSB(_, _, _)
MulLSB(a, k, c) ==
  IF a = <<>> THEN Reverse(BitsOfNat(c))
  ELSE LET w == IF Len(a) < 16 THEN Len(a) ELSE 16
           t == ValLSB(Take(a, w)) * k + c
       IN  BitsLSB(t, w) \o MulLSB(Drop(a, w), k, t \div 2^w)

BitsMul(a, k) == StripLeadingZeros(Reverse(MulLSB(Reverse(a), k, 0)))

\* long division of a bit string by a natural n < 2^10, r the running
\* remainder, 16 bits at a time: the quotient bits, then the last remainder
RECURSIVE DivBits(_, _, _)
DivBits(a, n, r) ==
  IF a = <<>> THEN <<r>>
  ELSE LET w == IF Len(a) < 16 THEN Len(a) ELSE 16
           t == r * 2^w + NatOfBits(Take(a, w))
       IN  Reverse(BitsLSB(t \div n, w)) \o DivBits(Drop(a, w), n, t % n)

\* the quotient bits q followed by those of a / n, and the last remainder
DivMSB(a, n, r, q) ==
  LET res == DivBits(a, n, r)
  IN  [q |-> q \o SubSeq(res, 1, Len(res) - 1), r |-> res[Len(res)]]

Zero == [m |-> <<>>, e |-> 0]

\* the double nearest to bits * 2^e (+ a nonzero fraction of 2^e if sticky)
RoundTo53(bits, e, sticky) ==
  LET L == Len(bits)
  IN  IF L = 0 THEN Zero
      ELSE IF L <= 53 THEN [m |-> bits \o Zeros(53 - L), e |-> e - (53 - L)]
      ELSE LET keep == SubSeq(bits, 1, 53)
               st   == sticky \/ \E k \in 55..L : bits[k] = 1
               up   == bits[54] = 1 /\ (st \/ keep[53] = 1)
               inc  == BitsAdd(keep, <<1>>)
           IN  IF ~up THEN [m |-> keep, e |-> e + (L - 53)]
               ELSE IF Len(inc) = 54 THEN [m |-> SubSeq(inc, 1, 53), e |-> e + (L - 53) + 1]
               ELSE [m |-> inc, e |-> e + (L - 53)]

\* the double nearest to n / d (n >= 0, 0 < d <= 100)
FromRatio(n, d) ==
  LET dv == DivMSB(BitsOfNat(n) \o Zeros(60), d, 0, <<>>)
  IN  RoundTo53(StripLeadingZeros(dv.q), -60, dv.r # 0)

\* x + y
FloatAdd(x, y) ==
  IF x.m = <<>> THEN y
  ELSE IF y.m = <<>> THEN x
  ELSE LET e == IF x.e < y.e THEN x.e ELSE y.e
       IN  RoundTo53(BitsAdd(x.m \o Zeros(x.e - e), y.m \o Zeros(y.e - e)), e, FALSE)

\* x / n for an int n, 0 < n < 1024
FloatDivInt(x, n) ==
  LET dv == DivMSB(x.m \o Zeros(12), n, 0, <<>>)
  IN  RoundTo53(StripLeadingZeros(dv.q), x.e - 12, dv.r # 0)

\* k * x for an int k >= 0
FloatMulInt(k, x) == RoundTo53(BitsMul(x.m, k), x.e, FALSE)

\* int(x): the integer part (values below 2^31)
FloatToInt(x) ==
  IF x.m = <<>> \/ 53 + x.e <= 0 THEN 0
  ELSE NatOfBits(SubSeq(x.m, 1, 53 + x.e))

RECURSIVE NatOf(_)
NatOf(s) == IF s = <<>> THEN 0 ELSE 10 * NatOf(SubSeq(s, 1, Len(s) - 1)) + (IndexIn(s[Len(s)], Digits) - 1)

IsDigits(s) == \A k \in DOMAIN s : s[k] \in Range(Digits)

\* the value of an unsigned decimal literal with at most two decimals, in
\* hundredths: [ok, hundredths]
DecimalOf(s) ==
  LET ip   == SplitFirst(s, ".")
      hasp == Len(ip) < Len(s)
      fp   == IF hasp THEN SubSeq(s, Len(ip) + 2, Len(s)) ELSE <<>>
      ok   == /\ ip # <<>> /\ IsDigits(ip) /\ IsDigits(fp)
              /\ Len(fp) <= 2 /\ (hasp => fp # <<>>)
      frac == IF Len(fp) = 1 THEN 10 * NatOf(fp) ELSE NatOf(fp)
  IN  [ok |-> ok, hundredths |-> IF ok THEN 100 * NatOf(ip) + frac ELSE 0]

\* float(col_raw) for the literals of RowSet (unsigned, at most two decimals):
\* the nearest double; any other text of RowSet raises ValueError
ParseFloat(s) ==
  LET d == DecimalOf(s)
  IN  [ok |-> d.ok, col |-> IF d.ok THEN FromRatio(d.hundredths, 100) ELSE Zero]

\* ------------------------------------------------------------------ input
\* rows of cities.csv as read by csv.DictReader (raw field text)
Row(c, s, v) == [city |-> c, state |-> s, col |-> v]

RowSet ==
  { Row(<<"A","u","s","t","i","n">>, <<"T","X">>, <<"1",".","1">>),
    Row(<<"D","a","l","l","a","s">>, <<"t","x">>, <<"0",".","9">>),
    Row(<<"S","t","."," ","P","a","u","l">>, <<"M","N">>, <<"0",".","9","5">>),
    Row(<<"S","t"," ","P","a","u","l">>, <<"M","N">>, <<"1",".","1","5">>),
    Row(<<" ","T","r","o","y"," ">>, <<"N","Y">>, <<"1",".","0">>),
    Row(<<"a","u","s","t","i","n">>, <<"T","X">>, <<"0">>),
    Row(<<"A","u","s","t","i","n">>, <<"T","X">>, <<"0",".","9">>),
    Row(<<"D","a","l","l","a","s">>, <<"T","X">>, <<"a","b","c">>),
    Row(<<>>, <<"T","X">>, <<"1",".","0">>) }

RequiredFields == {"city", "state", "col"}

AllSrcFiles == {image_filename} \cup Range(FAVICON_FILES)

\* a page left in the output directory by an earlier run
StaleKey == [dir |-> <<"/","o","l","d","/">>, name |-> "index.html"]

VARIABLES
  csv_fields,          \* header of cities.csv
  csv_rows,            \* data rows of cities.csv
  SITE_MODE,           \* sys.argv[1]
  env_SUBDOMAIN_BASE,  \* os.environ["SUBDOMAIN_BASE"]
  src_files,           \* static files present next to generate.py
  prev_out,            \* the output directory as the run finds it
  CITIES,              \* loaded records
  STATE_TO_COL_MAP,    \* state code -> average cost index
  pc,                  \* position in the run
  error,               \* the exception that ended the run, "" if none
  error_line,          \* CSV line named by a load error, 0 if none
  fs,                  \* the output directory: file -> content
  here_files,          \* files written next to generate.py
  log,                 \* the write_text calls on the output directory, in order
  urls,                \* the build's list of sitemap URLs
  i,                   \* loop index of the build's city loops
  call,                \* a single function under test and its arguments
  ret                  \* what that function returned

vars == <<csv_fields, csv_rows, SITE_MODE, env_SUBDOMAIN_BASE, src_files, prev_out, CITIES,
          STATE_TO_COL_MAP, pc, error, error_line, fs, here_files, log, urls, i,
          call, ret>>

\* what a run of the build reads and never writes
inputs == <<csv_fields, csv_rows, SITE_MODE, env_SUBDOMAIN_BASE, src_files, prev_out, call, ret>>

SUBDOMAIN_BASE == StripSet(Lower(Strip(env_SUBDOMAIN_BASE)), {"."})

\* --------------------------------------------------------- file contents
\* What the model keeps of a written file.  Pages: the canonical link of
\* base_html, the price range of location_cost_section (<<>> if the page has
\* none) and the navigation flags.  sitemap.xml: its <loc> entries.
\* robots.txt: its Sitemap: line.  amounts: the dollar amounts of the cost
\* copy a page embeds; listing: the <li> links of its city or state list.
File(kind, city, st, canonical, price, nav_cost, nav_howto, entries) ==
  [kind |-> kind, city |-> city, st |-> st, canonical |-> canonical, price |-> price,
   nav_cost |-> nav_cost, nav_howto |-> nav_howto, entries |-> entries,
   amounts |-> <<>>, listing |-> <<>>]

Asset == File("asset", <<>>, <<>>, <<>>, <<>>, FALSE, FALSE, <<>>)

EmptyFs == [k \in {} |-> Asset]

StaleFs == [k \in {StaleKey} |-> File("stale", <<>>, <<>>, <<>>, <<>>, FALSE, FALSE, <<>>)]

\* ------------------------------------------------------------ load cities
\* LoadRows counting the lines from 1 (enumerate(reader, start=1))
RECURSIVE LoadRows_StartAtOne(_, _, _)
LoadRows_StartAtOne(rows, n, out) ==
  IF n > Len(rows) THEN [ok |-> TRUE, cities |-> out, error |-> "", line |-> 0]
  ELSE LET row     == rows[n]
           city    == Strip(row.city)
           state   == Upper(Strip(row.state))
           col_raw == Strip(row.col)
           parsed  == ParseFloat(col_raw)
       IN  IF city = <<>> \/ state = <<>> \/ col_raw = <<>>
           THEN [ok |-> FALSE, cities |-> <<>>, error |-> "Missing city/state/col", line |-> n]
           ELSE IF ~parsed.ok
           THEN [ok |-> FALSE, cities |-> <<>>, error |-> "Invalid col", line |-> n]
           ELSE LoadRows_StartAtOne(rows, n + 1, Append(out, [city |-> city, st |-> state, col |-> parsed.col]))

RECURSIVE LoadRows(_, _, _)
LoadRows(rows, n, out) ==
  IF n > Len(rows) THEN [ok |-> TRUE, cities |-> out, error |-> "", line |-> 0]
  ELSE LET row     == rows[n]
           city    == Strip(row.city)
           state   == Upper(Strip(row.state))
           col_raw == Strip(row.col)
           parsed  == ParseFloat(col_raw)
       IN  IF city = <<>> \/ state = <<>> \/ col_raw = <<>>
           THEN [ok |-> FALSE, cities |-> <<>>, error |-> "Missing city/state/col", line |-> n + 1]
           ELSE IF ~parsed.ok
           THEN [ok |-> FALSE, cities |-> <<>>, error |-> "Invalid col", line |-> n + 1]
           ELSE LoadRows(rows, n + 1, Append(out, [city |-> city, st |-> state, col |-> parsed.col]))

load_cities_from_csv(fields, rows) ==
  IF ~(RequiredFields \subseteq fields)
  THEN [ok |-> FALSE, cities |-> <<>>, error |-> "CSV must have headers", line |-> 0]
  ELSE LoadRows(rows, 1, <<>>)

\* total_state_cols[st]: the cost indexes of the records of state st, in
\* input order
ColsOfState(cities, st) ==
  LET RECURSIVE Go(_)
      Go(n) == IF n > Len(cities) THEN <<>>
               ELSE (IF cities[n].st = st THEN <<cities[n].col>> ELSE <<>>) \o Go(n + 1)
  IN  Go(1)

\* sum(cols): 0 + cols[0] + cols[1] + ..., left to right
RECURSIVE FloatSum(_)
FloatSum(cols) ==
  IF cols = <<>> THEN Zero ELSE FloatAdd(FloatSum(SubSeq(cols, 1, Len(cols) - 1)), cols[Len(cols)])

generate_state_to_col_map(cities) ==
  [st \in {cities[n].st : n \in DOMAIN cities} |->
     LET cols == ColsOfState(cities, st)
     IN  FloatDivInt(FloatSum(cols), Len(cols))]

\* ------------------------------------------------------------ mode + urls
Slash == <<"/">>

city_subdomain_slug(city, st) == Replace(Lower(city \o st), <<" ">>, <<>>)

rel_city_path_regular(city, st) == Slash \o slugify(city) \o <<"-">> \o slugify(st) \o Slash

rel_city_path_state(city, st) == Slash \o slugify(st) \o Slash \o slugify(city) \o Slash

abs_city_origin_subdomain(slug) ==
  LET base == IF SUBDOMAIN_BASE # <<>> THEN SUBDOMAIN_BASE
              ELSE IF SITE_ORIGIN # <<>>
                   THEN SplitFirst(Replace(Replace(SITE_ORIGIN, HttpsPrefix, <<>>), HttpPrefix, <<>>), "/")
                   ELSE <<>>
  IN  IF base = <<>> THEN Slash \o slug \o Slash
      ELSE HttpsPrefix \o slug \o <<".">> \o base \o Slash

href_city(mode, city, st) ==
  IF mode = "state" THEN rel_city_path_state(city, st)
  ELSE IF mode = "subdomain" THEN abs_city_origin_subdomain(city_subdomain_slug(city, st))
  ELSE rel_city_path_regular(city, st)

href_state(mode, st) == Slash \o slugify(st) \o Slash

href_cost_index(mode) ==
  LET p == Slash \o cost_slug \o Slash
  IN  IF mode = "subdomain" /\ SITE_ORIGIN # <<>> THEN SITE_ORIGIN \o p ELSE p

href_howto_index(mode) ==
  LET p == Slash \o howto_slug \o Slash
  IN  IF mode = "subdomain" /\ SITE_ORIGIN # <<>> THEN SITE_ORIGIN \o p ELSE p

\* canonical_for without the site origin
canonical_for_NoOrigin(mode, path_or_abs) == path_or_abs

canonical_for(mode, path_or_abs) ==
  IF StartsWith(path_or_abs, HttpPrefix) \/ StartsWith(path_or_abs, HttpsPrefix) THEN path_or_abs
  ELSE IF SITE_ORIGIN # <<>> THEN SITE_ORIGIN \o path_or_abs
  ELSE path_or_abs

ContactPath == <<"/","c","o","n","t","a","c","t","/">>

CostPrefix == <<"/","c","o","s","t","/">>

\* ------------------------------------------------------- cities_by_state
\* code points of the characters of the inputs, in increasing order
CharOrder ==
  <<"\t", "\n", " ", "&", "-", ".", "/">> \o Digits \o <<":">> \o UpperLetters \o LowerLetters

RECURSIVE StrLess(_, _)
StrLess(a, b) ==
  IF b = <<>> THEN FALSE
  ELSE IF a = <<>> THEN TRUE
  ELSE IF Head(a) = Head(b) THEN StrLess(Tail(a), Tail(b))
  ELSE IndexIn(Head(a), CharOrder) < IndexIn(Head(b), CharOrder)

\* insertion of x after the elements of a sorted list whose key is <= its key
InsertByCity(sorted, x) ==
  LET k == Cardinality({n \in DOMAIN sorted : ~StrLess(Lower(x.city), Lower(sorted[n].city))})
  IN  SubSeq(sorted, 1, k) \o <<x>> \o SubSeq(sorted, k + 1, Len(sorted))

\* list.sort(key=lambda t: t[0].lower()), a stable sort
RECURSIVE SortByCity(_)
SortByCity(l) ==
  IF l = <<>> THEN <<>>
  ELSE InsertByCity(SortByCity(SubSeq(l, 1, Len(l) - 1)), l[Len(l)])

\* StatesInOrder opening a new group for every record
RECURSIVE StatesInOrder_NoDedup(_, _)
StatesInOrder_NoDedup(cities, seen) ==
  IF cities = <<>> THEN <<>>
  ELSE <<Head(cities).st>> \o StatesInOrder_NoDedup(Tail(cities), seen)

\* the states in order of first occurrence (dict insertion order)
RECURSIVE StatesInOrder(_, _)
StatesInOrder(cities, seen) ==
  IF cities = <<>> THEN <<>>
  ELSE IF Head(cities).st \in seen THEN StatesInOrder(Tail(cities), seen)
  ELSE <<Head(cities).st>> \o StatesInOrder(Tail(cities), seen \cup {Head(cities).st})

cities_by_state(cities) ==
  LET sts == StatesInOrder(cities, {})
  IN  [n \in DOMAIN sts |->
         [st |-> sts[n],
          cities |-> SortByCity(SelectSeq(cities, LAMBDA c : c.st = sts[n]))]]

\* --------------------------------------------------------- page factories
\* the default col = 1 of location_cost_section
One == FromRatio(1, 1)

\* CONFIG = SiteConfig(): the pricing base of generate.py
CONFIG == [cost_low |-> cost_low, cost_high |-> cost_high]

\* the pricing bases of the SiteConfig classes of the repository
SiteConfigs == {CONFIG, [cost_low |-> 350, cost_high |-> 8500]}

\* int(CONFIG.cost_low * col), int(CONFIG.cost_high * col) for a given CONFIG
LocationCost(config, col) ==
  << FloatToInt(FloatMulInt(config.cost_low, col)), FloatToInt(FloatMulInt(config.cost_high, col)) >>

\* the two <strong>$..</strong> figures of location_cost_section
location_cost_section(col) == LocationCost(CONFIG, col)

\* make_page called without the navigation flags: nav_show_cost and
\* nav_show_howto keep their default True
make_page_NavDefaults(mode, kind, city, st, canonical, price) ==
  File(kind, city, st, canonical_for(mode, canonical), price, TRUE, TRUE, <<>>)

\* make_page + base_html: the canonical link and the navigation flags
make_page(mode, kind, city, st, canonical, price) ==
  File(kind, city, st, canonical_for(mode, canonical), price,
       feature(mode, "cost"), feature(mode, "howto"), <<>>)

\* the <li> links of a list of records, in the order of the list
LinksOf(cities) == [n \in DOMAIN cities |-> [city |-> cities[n].city, st |-> cities[n].st]]

\* the city index of the home page: CITIES in input order, none in subdomain mode
homepage_html(mode) ==
  [make_page(mode, "home", <<>>, <<>>, Slash, location_cost_section(One))
     EXCEPT !.listing = IF mode # "subdomain" THEN LinksOf(CITIES) ELSE <<>>]

\* sorted(by_state.keys())
RECURSIVE SortedStates(_)
SortedStates(S) ==
  IF S = {} THEN <<>>
  ELSE LET least == CHOOSE a \in S : \A b \in S \ {a} : StrLess(a, b)
       IN  <<least>> \o SortedStates(S \ {least})

\* the state index of the state-mode home page
state_homepage_html(mode) ==
  [make_page(mode, "home", <<>>, <<>>, Slash, location_cost_section(One))
     EXCEPT !.listing = LET states == SortedStates({CITIES[n].st : n \in DOMAIN CITIES})
                        IN  [n \in DOMAIN states |-> [city |-> <<>>, st |-> states[n]]]]

contact_page_html(mode, canonical) == make_page(mode, "contact", <<>>, <<>>, canonical, <<>>)

city_page_html(mode, city, st, col, canonical) ==
  make_page(mode, "city", city, st, canonical, location_cost_section(col))

\* the dollar amounts of CONFIG.cost_body, in the order of the text
cost_body ==
  << 100, 250, 200, 450, 300, 800, 150, 400, 150, 500, 100, 300, 150, 450, 800,
     100, 250, 250, 450, 450, 800, 100, 250, 200, 450, 300, 800, 500, 1500,
     150, 500, 100, 300, 50, 150, 100, 400 >>

\* inner = CONFIG.cost_body (+ the city index when include_city_index)
cost_page_html(mode) ==
  [make_page(mode, "cost_index", <<>>, <<>>, Slash \o cost_slug \o Slash, <<>>)
     EXCEPT !.amounts = cost_body,
            !.listing = IF mode = "cost" THEN LinksOf(CITIES) ELSE <<>>]

\* inner = location_cost_section(city, st, col) + CONFIG.cost_body
cost_city_page_html(mode, city, st, col) ==
  [make_page(mode, "cost_city", city, st,
             CostPrefix \o slugify(city) \o <<"-">> \o slugify(st) \o Slash,
             location_cost_section(col))
     EXCEPT !.amounts = cost_body]

howto_page_html(mode) == make_page(mode, "howto", <<>>, <<>>, Slash \o howto_slug \o Slash, <<>>)

\* cities: the city_list of st in cities_by_state(CITIES)
state_page_html(mode, st) ==
  LET by_state == cities_by_state(CITIES)
      group    == by_state[CHOOSE n \in DOMAIN by_state : by_state[n].st = st]
  IN  [make_page(mode, "state", <<>>, st, Slash \o slugify(st) \o Slash,
                 location_cost_section(STATE_TO_COL_MAP[st]))
         EXCEPT !.listing = LinksOf(group.cities)]

\* robots_txt naming the sitemap by its path only
robots_txt_PathOnly(mode) ==
  File("robots", <<>>, <<>>, <<>>, <<>>, FALSE, FALSE,
       << <<"/","s","i","t","e","m","a","p",".","x","m","l">> >>)

robots_txt(mode) ==
  File("robots", <<>>, <<>>, <<>>, <<>>, FALSE, FALSE,
       << canonical_for(mode, <<"/","s","i","t","e","m","a","p",".","x","m","l">>) >>)

sitemap_xml(us) == File("sitemap", <<>>, <<>>, <<>>, <<>>, FALSE, FALSE, us)

\* the plan of build_state's nested loop: for every state its page, then the
\* pages of its cities
RECURSIVE StatePlanOf(_)
StatePlanOf(groups) ==
  IF groups = <<>> THEN <<>>
  ELSE LET g == Head(groups)
       IN  <<[kind |-> "state", st |-> g.st, city |-> <<>>, col |-> One]>>
           \o [n \in DOMAIN g.cities |->
                 [kind |-> "city", st |-> g.st, city |-> g.cities[n].city, col |-> g.cities[n].col]]
           \o StatePlanOf(Tail(groups))

StatePlan == StatePlanOf(cities_by_state(CITIES))

domain_from_site_origin ==
  IF SUBDOMAIN_BASE # <<>> THEN StripSet(Lower(Strip(SUBDOMAIN_BASE)), {"."})
  ELSE IF SITE_ORIGIN = <<>> THEN <<>>
  ELSE StripSet(Strip(Lower(SplitFirst(Replace(Replace(SITE_ORIGIN, HttpsPrefix, <<>>), HttpPrefix, <<>>), "/"))), {"."})

\* the route of vercel_json_for_subdomains(domain) applied to a request host:
\* the host matches (?<city>(?!www$)[a-z0-9-]+)\.{domain} as a whole, and the
\* request is then served from /{city}/
vercel_route(host, domain) ==
  LET n     == Len(host) - Len(domain) - 1
      label == IF n > 0 THEN SubSeq(host, 1, n) ELSE <<>>
      ok    == /\ n > 0
               /\ SubSeq(host, n + 1, Len(host)) = <<".">> \o domain
               /\ \A k \in DOMAIN label : label[k] \in SlugChars \cup {"-"}
               /\ label # <<"w","w","w">>
  IN  [matches |-> ok, dest |-> IF ok THEN Slash \o label \o Slash ELSE <<>>]

\* ------------------------------------------------------------- file system
\* out / seg1 / seg2: pathlib drops empty segments
RECURSIVE DirPath(_)
DirPath(segs) ==
  IF segs = <<>> THEN Slash
  ELSE IF Len(segs) = 1 THEN (IF segs[1] = <<>> THEN Slash ELSE Slash \o segs[1] \o Slash)
  ELSE LET front == DirPath(SubSeq(segs, 1, Len(segs) - 1))
           last  == segs[Len(segs)]
       IN  IF last = <<>> THEN front ELSE front \o last \o Slash

Key(segs, name) == [dir |-> DirPath(segs), name |-> name]

\* write_text keeping a file that is already there
Written_KeepFirst(k, content) == fs @@ (k :> content)

\* write_text(out / ... / name, content): the effect on fs and log
Written(k, content) == (k :> content) @@ fs

Logged(k, content) == Append(log, [key |-> k, content |-> content])

write_text(k, content) ==
  /\ fs' = Written(k, content)
  /\ log' = Logged(k, content)

Abort(msg, line) ==
  /\ pc' = "aborted"
  /\ error' = msg
  /\ error_line' = line

\* ------------------------------------------------------------ start of run
Init ==
  /\ csv_fields \in {RequiredFields, {"city", "state"}}
  /\ csv_rows \in UNION {[1..n -> RowSet] : n \in 0..MaxCities}
  /\ SITE_MODE \in VALID_MODES \cup {"bogus"}
  /\ env_SUBDOMAIN_BASE \in
       IF SITE_MODE = "subdomain" THEN {<<>>, <<"E","x","a","m","p","l","e",".","c","o","m",".">>}
       ELSE {<<>>}
  /\ src_files \in {AllSrcFiles, AllSrcFiles \ {image_filename}, AllSrcFiles \ {"favicon.svg"}}
  /\ prev_out \in {EmptyFs, StaleFs}
  /\ fs = prev_out
  /\ CITIES = <<>>
  /\ STATE_TO_COL_MAP = [st \in {} |-> One]
  /\ pc = "load"
  /\ error = ""
  /\ error_line = 0
  /\ here_files = {}
  /\ log = <<>>
  /\ urls = <<>>
  /\ i = 0
  /\ call = <<>>
  /\ ret = <<>>

\* module level: CITIES = load_cities_from_csv(...); STATE_TO_COL_MAP = ...
LoadCities ==
  /\ pc = "load"
  /\ LET r == load_cities_from_csv(csv_fields, csv_rows)
     IN  IF r.ok
         THEN /\ CITIES' = r.cities
              /\ STATE_TO_COL_MAP' = generate_state_to_col_map(r.cities)
              /\ pc' = "check_mode"
              /\ UNCHANGED <<error, error_line>>
         ELSE /\ Abort(r.error, r.line)
              /\ UNCHANGED <<CITIES, STATE_TO_COL_MAP>>
  /\ UNCHANGED <<inputs, fs, here_files, log, urls, i>>

\* CheckMode without the test of SITE_MODE
CheckMode_NoCheck ==
  /\ pc = "check_mode"
  /\ pc' = "reset"
  /\ UNCHANGED <<inputs, CITIES, STATE_TO_COL_MAP, error, error_line, fs, here_files, log, urls, i>>

\* module level: if SITE_MODE not in VALID_MODES: raise ValueError
CheckMode ==
  /\ pc = "check_mode"
  /\ IF SITE_MODE \in VALID_MODES
     THEN pc' = "reset" /\ UNCHANGED <<error, error_line>>
     ELSE Abort("Invalid SITE_MODE", 0)
  /\ UNCHANGED <<inputs, CITIES, STATE_TO_COL_MAP, fs, here_files, log, urls, i>>

\* reset_output_dir leaving the directory as it is
reset_output_dir_NoRemove ==
  /\ pc = "reset"
  /\ pc' = "copy_image"
  /\ UNCHANGED <<inputs, CITIES, STATE_TO_COL_MAP, error, error_line, fs, here_files, log, urls, i>>

\* main: reset_output_dir(out)
reset_output_dir ==
  /\ pc = "reset"
  /\ fs' = EmptyFs
  /\ pc' = "copy_image"
  /\ UNCHANGED <<inputs, CITIES, STATE_TO_COL_MAP, error, error_line, here_files, log, urls, i>>

\* main: copy_site_image(...)
copy_site_image ==
  /\ pc = "copy_image"
  /\ IF image_filename \in src_files
     THEN /\ fs' = (Key(<<>>, image_filename) :> Asset) @@ fs
          /\ pc' = "copy_static"
          /\ UNCHANGED <<error, error_line>>
     ELSE /\ Abort("Missing image", 0)
          /\ UNCHANGED fs
  /\ UNCHANGED <<inputs, CITIES, STATE_TO_COL_MAP, here_files, log, urls, i>>

\* copy_static_files skipping the files that are missing
copy_static_files_SkipMissing ==
  /\ pc = "copy_static"
  /\ LET copied == {Key(<<>>, FAVICON_FILES[n]) : n \in {m \in DOMAIN FAVICON_FILES : FAVICON_FILES[m] \in src_files}}
     IN  fs' = [k \in copied |-> Asset] @@ fs
  /\ pc' = IF SITE_MODE = "subdomain" THEN "vercel" ELSE "common_cost"
  /\ UNCHANGED <<inputs, CITIES, STATE_TO_COL_MAP, error, error_line, here_files, log, urls, i>>

\* main: copy_static_files(...): copies in order, raises at the first missing
copy_static_files ==
  /\ pc = "copy_static"
  /\ LET missing == {n \in DOMAIN FAVICON_FILES : FAVICON_FILES[n] \notin src_files}
         stop    == IF missing = {} THEN Len(FAVICON_FILES) + 1
                    ELSE CHOOSE n \in missing : \A m \in missing : n <= m
         copied  == {Key(<<>>, FAVICON_FILES[n]) : n \in 1..(stop - 1)}
     IN  /\ fs' = [k \in copied |-> Asset] @@ fs
         /\ IF missing = {}
            THEN /\ pc' = IF SITE_MODE = "subdomain" THEN "vercel" ELSE "common_cost"
                 /\ UNCHANGED <<error, error_line>>
            ELSE Abort("Missing static file", 0)
  /\ UNCHANGED <<inputs, CITIES, STATE_TO_COL_MAP, here_files, log, urls, i>>

\* ----------------------------------------------------------- build modes
frame == <<inputs, CITIES, STATE_TO_COL_MAP, error, error_line>>

\* build_subdomain: write_text(here / "vercel.json", vercel_json_for_subdomains(domain))
WriteVercel ==
  /\ pc = "vercel"
  /\ IF domain_from_site_origin = <<>>
     THEN /\ Abort("Need domain to generate vercel.json", 0)
          /\ UNCHANGED <<inputs, CITIES, STATE_TO_COL_MAP, here_files>>
     ELSE /\ here_files' = here_files \cup {"vercel.json"}
          /\ pc' = "common_cost"
          /\ UNCHANGED frame
  /\ UNCHANGED <<fs, log, urls, i>>

\* build_common: urls = ["/"], then the cost index page
CommonCost ==
  /\ pc = "common_cost"
  /\ IF feature(SITE_MODE, "cost")
     THEN /\ write_text(Key(<<cost_slug>>, "index.html"), cost_page_html(SITE_MODE))
          /\ urls' = <<Slash, Slash \o cost_slug \o Slash>>
     ELSE /\ urls' = <<Slash>>
          /\ UNCHANGED <<fs, log>>
  /\ pc' = "common_howto"
  /\ UNCHANGED <<frame, here_files, i>>

\* CommonHowto forgetting the sitemap URL of the how-to page
CommonHowto_NoUrl ==
  /\ pc = "common_howto"
  /\ IF feature(SITE_MODE, "howto")
     THEN /\ write_text(Key(<<howto_slug>>, "index.html"), howto_page_html(SITE_MODE))
          /\ UNCHANGED urls
     ELSE UNCHANGED <<fs, log, urls>>
  /\ pc' = "common_contact"
  /\ UNCHANGED <<frame, here_files, i>>

\* build_common: the how-to page
CommonHowto ==
  /\ pc = "common_howto"
  /\ IF feature(SITE_MODE, "howto")
     THEN /\ write_text(Key(<<howto_slug>>, "index.html"), howto_page_html(SITE_MODE))
          /\ urls' = Append(urls, Slash \o howto_slug \o Slash)
     ELSE UNCHANGED <<fs, log, urls>>
  /\ pc' = "common_contact"
  /\ UNCHANGED <<frame, here_files, i>>

\* CommonContact putting the URL of the contact page at the front of the list
CommonContact_UrlFirst ==
  /\ pc = "common_contact"
  /\ IF feature(SITE_MODE, "contact")
     THEN /\ write_text(Key(<<<<"c","o","n","t","a","c","t">>>>, "index.html"),
                        contact_page_html(SITE_MODE, ContactPath))
          /\ urls' = <<ContactPath>> \o urls
     ELSE UNCHANGED <<fs, log, urls>>
  /\ pc' = "home"
  /\ UNCHANGED <<frame, here_files, i>>

\* build_common: the contact page
CommonContact ==
  /\ pc = "common_contact"
  /\ IF feature(SITE_MODE, "contact")
     THEN /\ write_text(Key(<<<<"c","o","n","t","a","c","t">>>>, "index.html"),
                        contact_page_html(SITE_MODE, ContactPath))
          /\ urls' = Append(urls, ContactPath)
     ELSE UNCHANGED <<fs, log, urls>>
  /\ pc' = "home"
  /\ UNCHANGED <<frame, here_files, i>>

\* LoopOf skipping the loops over the records
LoopOf_NoLoop(mode) == "robots"

\* where each builder goes after the home page
LoopOf(mode) ==
  CASE mode = "state"     -> "state"
    [] mode = "subdomain" -> "sub_city"
    [] OTHER              -> "city"

\* build_*: write_text(out / "index.html", homepage_html(mode=mode))
WriteHome ==
  /\ pc = "home"
  /\ write_text(Key(<<>>, "index.html"),
                IF SITE_MODE = "state" THEN state_homepage_html(SITE_MODE)
                ELSE homepage_html(SITE_MODE))
  /\ i' = 1
  /\ pc' = IF CITIES = <<>> THEN "robots" ELSE LoopOf(SITE_MODE)
  /\ UNCHANGED <<frame, here_files, urls>>

\* CityLoopStep with the state left out of the slug
CityLoopStep_CityOnlySlug(mode, after) ==
  /\ LET c    == CITIES[i]
         slug == slugify(c.city)
     IN  /\ write_text(Key(<<slug>>, "index.html"),
                       city_page_html(mode, c.city, c.st, c.col, Slash \o slug \o Slash))
         /\ urls' = Append(urls, Slash \o slug \o Slash)
  /\ IF i < Len(CITIES) THEN i' = i + 1 /\ pc' = "city"
     ELSE i' = 1 /\ pc' = after
  /\ UNCHANGED <<frame, here_files>>

\* one iteration of "for city, st, col in CITIES" of build_regular, build_cost
\* and build_regular_city_only
CityLoopStep(mode, after) ==
  /\ LET c    == CITIES[i]
         slug == slugify(c.city) \o <<"-">> \o slugify(c.st)
     IN  /\ write_text(Key(<<slug>>, "index.html"),
                       city_page_html(mode, c.city, c.st, c.col, Slash \o slug \o Slash))
         /\ urls' = Append(urls, Slash \o slug \o Slash)
  /\ IF i < Len(CITIES) THEN i' = i + 1 /\ pc' = "city"
     ELSE i' = 1 /\ pc' = after
  /\ UNCHANGED <<frame, here_files>>

build_regular ==
  /\ pc = "city"
  /\ SITE_MODE = "regular"
  /\ CityLoopStep("regular", "robots")

build_regular_city_only ==
  /\ pc = "city"
  /\ SITE_MODE = "regular_city_only"
  /\ CityLoopStep("regular_city_only", "robots")

build_cost ==
  /\ pc = "city"
  /\ SITE_MODE = "cost"
  /\ CityLoopStep("cost", "cost_city")

\* build_cost: one iteration of the city cost pages loop
build_cost_city ==
  /\ pc = "cost_city"
  /\ LET c    == CITIES[i]
         slug == slugify(c.city) \o <<"-">> \o slugify(c.st)
     IN  /\ write_text(Key(<< <<"c","o","s","t">>, slug >>, "index.html"),
                       cost_city_page_html(SITE_MODE, c.city, c.st, c.col))
         /\ urls' = Append(urls, CostPrefix \o slug \o Slash)
  /\ IF i < Len(CITIES) THEN i' = i + 1 /\ pc' = "cost_city"
     ELSE i' = 1 /\ pc' = "robots"
  /\ UNCHANGED <<frame, here_files>>

\* build_state: the page of one state
build_state_page ==
  /\ pc = "state"
  /\ StatePlan[i].kind = "state"
  /\ LET st == StatePlan[i].st
     IN  /\ write_text(Key(<<slugify(st)>>, "index.html"), state_page_html(SITE_MODE, st))
         /\ urls' = Append(urls, Slash \o slugify(st) \o Slash)
  /\ IF i < Len(StatePlan) THEN i' = i + 1 /\ pc' = "state"
     ELSE i' = 1 /\ pc' = "robots"
  /\ UNCHANGED <<frame, here_files>>

\* build_state: the page of one city of a state
build_state_city ==
  /\ pc = "state"
  /\ StatePlan[i].kind = "city"
  /\ LET c    == StatePlan[i]
         path == Slash \o slugify(c.st) \o Slash \o slugify(c.city) \o Slash
     IN  /\ write_text(Key(<<slugify(c.st), slugify(c.city)>>, "index.html"),
                       city_page_html(SITE_MODE, c.city, c.st, c.col, path))
         /\ urls' = Append(urls, path)
  /\ IF i < Len(StatePlan) THEN i' = i + 1 /\ pc' = "state"
     ELSE i' = 1 /\ pc' = "robots"
  /\ UNCHANGED <<frame, here_files>>

\* build_subdomain: the home page of one city
build_subdomain_city ==
  /\ pc = "sub_city"
  /\ LET c         == CITIES[i]
         slug      == city_subdomain_slug(c.city, c.st)
         canonical == abs_city_origin_subdomain(slug)
     IN  /\ write_text(Key(<<slug>>, "index.html"),
                       city_page_html(SITE_MODE, c.city, c.st, c.col, canonical))
         /\ urls' = Append(urls, canonical)
  /\ pc' = "sub_contact"
  /\ UNCHANGED <<frame, here_files, i>>

\* build_subdomain_contact forgetting the sitemap URL of the contact page
build_subdomain_contact_NoUrl ==
  /\ pc = "sub_contact"
  /\ LET c             == CITIES[i]
         slug          == city_subdomain_slug(c.city, c.st)
         contact_canon == abs_city_origin_subdomain(slug) \o <<"c","o","n","t","a","c","t","/">>
     IN  write_text(Key(<<slug, <<"c","o","n","t","a","c","t">>>>, "index.html"),
                    contact_page_html(SITE_MODE, contact_canon))
  /\ IF i < Len(CITIES) THEN i' = i + 1 /\ pc' = "sub_city"
     ELSE i' = 1 /\ pc' = "robots"
  /\ UNCHANGED <<frame, here_files, urls>>

\* build_subdomain: the contact page of one city
build_subdomain_contact ==
  /\ pc = "sub_contact"
  /\ LET c             == CITIES[i]
         slug          == city_subdomain_slug(c.city, c.st)
         contact_canon == abs_city_origin_subdomain(slug) \o <<"c","o","n","t","a","c","t","/">>
     IN  /\ write_text(Key(<<slug, <<"c","o","n","t","a","c","t">>>>, "index.html"),
                       contact_page_html(SITE_MODE, contact_canon))
         /\ urls' = Append(urls, contact_canon)
  /\ IF i < Len(CITIES) THEN i' = i + 1 /\ pc' = "sub_city"
     ELSE i' = 1 /\ pc' = "robots"
  /\ UNCHANGED <<frame, here_files>>

\* build_*: write_text(out / "robots.txt", robots_txt(mode=mode))
WriteRobots ==
  /\ pc = "robots"
  /\ write_text(Key(<<>>, "robots.txt"), robots_txt(SITE_MODE))
  /\ pc' = "sitemap"
  /\ UNCHANGED <<frame, here_files, urls, i>>

\* build_*: write_text(out / "sitemap.xml", sitemap_xml([canonical_for(mode, u) for u in urls]))
WriteSitemap ==
  /\ pc = "sitemap"
  /\ write_text(Key(<<>>, "sitemap.xml"),
                sitemap_xml([n \in DOMAIN urls |-> canonical_for(SITE_MODE, urls[n])]))
  /\ pc' = "wrangler"
  /\ UNCHANGED <<frame, here_files, urls, i>>

\* build_*: write_text(here / "wrangler.jsonc", wrangler_content())
WriteWrangler ==
  /\ pc = "wrangler"
  /\ here_files' = here_files \cup {"wrangler.jsonc"}
  /\ pc' = "done"
  /\ UNCHANGED <<frame, fs, log, urls, i>>

Next ==
  \/ LoadCities
  \/ CheckMode
  \/ reset_output_dir
  \/ copy_site_image
  \/ copy_static_files
  \/ WriteVercel
  \/ CommonCost
  \/ CommonHowto
  \/ CommonContact
  \/ WriteHome
  \/ build_regular
  \/ build_regular_city_only
  \/ build_cost
  \/ build_cost_city
  \/ build_state_page
  \/ build_state_city
  \/ build_subdomain_city
  \/ build_subdomain_contact
  \/ WriteRobots
  \/ WriteSitemap
  \/ WriteWrangler

Spec == Init /\ [][Next]_vars

\* ------------------------------------------------------------------ titles
h1_title ==
  <<"E","m","e","r","g","e","n","c","y"," ","M","a","i","n","t","e","n","a","n","c","e","/","2","4"," ","H","o","u","r"," ","M","a","i","n","t","e","n","a","n","c","e"," ","S","e","r","v","i","c","e","s">>

h1_short ==
  <<"E","m","e","r","g","e","n","c","y"," ","M","a","i","n","t","e","n","a","n","c","e"," ","S","e","r","v","i","c","e","s">>

\* the entries of US_STATE_NAMES for the state codes of the inputs
US_STATE_NAMES ==
  (<<"T","X">> :> <<"T","e","x","a","s">>) @@ (<<"M","N">> :> <<"M","i","n","n","e","s","o","t","a">>)
    @@ (<<"N","Y">> :> <<"N","e","w"," ","Y","o","r","k">>) @@ (<<"D","C">> :> <<"D","i","s","t","r","i","c","t"," ","o","f"," ","C","o","l","u","m","b","i","a">>)

state_full(abbr) ==
  IF Upper(abbr) \in DOMAIN US_STATE_NAMES THEN US_STATE_NAMES[Upper(abbr)] ELSE Upper(abbr)

\* the one character HORIZONTAL ELLIPSIS, written by its code point
Ellipsis == "U+2026"

\* the default max_chars of clamp_title, and the 70 its callers pass
max_chars == 70

\* clamp_title returning the title as it is
clamp_title_NoClamp(title, max) == title

\* title[: max_chars - 1].rstrip() + the ellipsis for a title longer than max_chars
clamp_title(title, max) ==
  IF Len(title) <= max THEN title
  ELSE RStripSet(SubSeq(title, 1, max - 1), WhiteSpace) \o <<Ellipsis>>

InWord == <<" ","i","n"," ">>

\* the h1 each page factory passes to make_page
H1Of(kind, city, st) ==
  CASE kind = "home"       -> h1_title
    [] kind = "contact"    -> <<"R","e","q","u","e","s","t"," ","a"," ","F","r","e","e"," ","E","s","t","i","m","a","t","e">>
    [] kind = "city"       -> clamp_title(h1_short \o InWord \o city \o <<",", " ">> \o st, max_chars)
    [] kind = "cost_index" -> cost_title
    [] kind = "cost_city"  -> clamp_title(cost_title \o InWord \o city \o <<",", " ">> \o st, max_chars)
    [] kind = "howto"      -> howto_title
    [] kind = "state"      -> clamp_title(h1_short \o InWord \o state_full(st), max_chars)

PageKinds == {"home", "contact", "city", "cost_index", "cost_city", "howto", "state"}

\* make_page: h1 = clamp_title(h1, 70); title = h1
page_title(kind, city, st) == clamp_title(H1Of(kind, city, st), max_chars)

\* ------------------------------------------------------------ page paths
\* the directory of the city page of a record: out / slug in build_regular,
\* build_cost and build_regular_city_only, out / slugify(st) / slugify(city)
\* in build_state, out / city_subdomain_slug(city, st) in build_subdomain
city_page_dir(mode, city, st) ==
  CASE mode = "state"     -> DirPath(<<slugify(st), slugify(city)>>)
    [] mode = "subdomain" -> DirPath(<<city_subdomain_slug(city, st)>>)
    [] OTHER              -> DirPath(<<slugify(city) \o <<"-">> \o slugify(st)>>)

\* the directories of the pages a build writes whatever the records: the
\* home page and the pages of build_common
fixed_page_dirs(mode) ==
  {DirPath(<<>>)}
    \cup (IF feature(mode, "cost") THEN {DirPath(<<cost_slug>>)} ELSE {})
    \cup (IF feature(mode, "howto") THEN {DirPath(<<howto_slug>>)} ELSE {})
    \cup (IF feature(mode, "contact") THEN {DirPath(<<<<"c","o","n","t","a","c","t">>>>)} ELSE {})

\* ------------------------------------------------- functions on their own
\* longest text handed to slugify and city_subdomain_slug
MaxTextLen == 3

SeqsUpTo(S, n) == UNION {[1..k -> S] : k \in 0..n}

\* display texts: letters of both cases, a digit, punctuation, "&", spaces
TextChars == {"S", "t", "1", ".", "'", "&", "-", " "}

SlugifyTexts ==
  SeqsUpTo(TextChars, MaxTextLen)
    \cup { <<"S","t","."," ","P","a","u","l","'","s">>,
           <<"O","'","F","a","l","l","o","n">> }

\* city names with inner white space, state codes
LabelChars == {"A", "b", " ", "\t"}

LabelStates == { <<"T","X">>, <<"n"," ","Y">> }

\* cost indexes as written in cities.csv
Multipliers ==
  { <<"1",".","0">>, <<"2",".","0">>, <<"0",".","7">>, <<"1",".","1">>, <<"0",".","9">>,
    <<"1",".","1","4">>, <<"1",".","1","5">>, <<"0",".","9","5">>, <<"2",".","3">>,
    <<"0",".","0","1">>, <<"3">> }

\* longest city or state name handed to a page factory
MaxNameLen == 40

\* a name of k characters with a space at position sp (none if sp is not in 1..k)
NameOf(k, sp) == [n \in 1..k |-> IF n = sp THEN " " ELSE "A"]

\* city names up to MaxNameLen characters; the spaces sit where clamp_title
\* cuts the h1 of a city page and of a city cost page
TitleCities == {NameOf(k, sp) : k \in 1..MaxNameLen, sp \in {0, 35, 39}}

TitleStates == { <<"T","X">>, <<"D","C">>, NameOf(MaxNameLen, 0) }

\* city names that spell, alone or with a state code, the name of a fixed page
PathCities ==
  { <<"C","o","n","t","a">>,
    <<"C","o","n","t","a","c","t">>,
    <<"A","u","s","t","i","n">>,
    <<"S","t","."," ","P","a","u","l">>,
    <<"E","m","e","r","g","e","n","c","y"," ","M","a","i","n","t","e","n","a","n","c","e"," ","C","o">>,
    <<"H","o","w"," ","E","m","e","r","g","e","n","c","y"," ","M","a","i","n","t","e","n","a","n","c","e"," ","W","o","r">>,
    <<"C","o","s","t">> }

\* two-letter state codes
PathStates == { <<"C","T">>, <<"T","X">>, <<"K","S">>, <<"S","T">> }

Calls ==
  {[fn |-> "slugify", args |-> <<t>>] : t \in SlugifyTexts}
    \cup {[fn |-> "city_subdomain_slug", args |-> <<c, st>>] :
            c \in SeqsUpTo(LabelChars, MaxTextLen), st \in LabelStates}
    \cup {[fn |-> "location_cost_section", args |-> <<cfg, m>>] :
            cfg \in SiteConfigs, m \in Multipliers}
    \cup {[fn |-> "make_page", args |-> <<kind, c, st>>] :
            kind \in PageKinds, c \in TitleCities, st \in TitleStates}
    \cup {[fn |-> "city_page_dir", args |-> <<mode, c, st>>] :
            mode \in VALID_MODES, c \in PathCities, st \in PathStates}

FnInit ==
  /\ call \in Calls
  /\ ret = <<>>
  /\ pc = "call"
  /\ csv_fields = RequiredFields
  /\ csv_rows = <<>>
  /\ SITE_MODE = "regular"
  /\ env_SUBDOMAIN_BASE = <<>>
  /\ src_files = AllSrcFiles
  /\ prev_out = EmptyFs
  /\ fs = EmptyFs
  /\ CITIES = <<>>
  /\ STATE_TO_COL_MAP = [st \in {} |-> One]
  /\ error = ""
  /\ error_line = 0
  /\ here_files = {}
  /\ log = <<>>
  /\ urls = <<>>
  /\ i = 0

Returns(value) ==
  /\ pc = "call"
  /\ ret' = value
  /\ pc' = "return"
  /\ UNCHANGED <<csv_fields, csv_rows, SITE_MODE, env_SUBDOMAIN_BASE, src_files, prev_out, call, CITIES,
                 STATE_TO_COL_MAP, error, error_line, fs, here_files, log, urls, i>>

apply_slugify ==
  /\ call.fn = "slugify"
  /\ Returns(slugify(call.args[1]))

apply_city_subdomain_slug ==
  /\ call.fn = "city_subdomain_slug"
  /\ Returns(city_subdomain_slug(call.args[1], call.args[2]))

\* location_cost_section(col=float(col_raw)) under the CONFIG of the call
apply_location_cost_section ==
  /\ call.fn = "location_cost_section"
  /\ \E parsed \in {ParseFloat(call.args[2])} :
       /\ parsed.ok
       /\ Returns(LocationCost(call.args[1], parsed.col))

\* the title make_page hands to base_html for a page of the given kind
apply_make_page ==
  /\ call.fn = "make_page"
  /\ Returns(page_title(call.args[1], call.args[2], call.args[3]))

apply_city_page_dir ==
  /\ call.fn = "city_page_dir"
  /\ Returns(city_page_dir(call.args[1], call.args[2], call.args[3]))

FnNext ==
  \/ apply_slugify
  \/ apply_city_subdomain_slug
  \/ apply_location_cost_section
  \/ apply_make_page
  \/ apply_city_page_dir

FnSpec == FnInit /\ [][FnNext]_vars

TypeOK ==
  /\ pc \in {"call", "return", "load", "check_mode", "reset", "copy_image", "copy_static", "vercel",
             "common_cost", "common_howto", "common_contact", "home", "city", "cost_city",
             "state", "sub_city", "sub_contact", "robots", "sitemap", "wrangler", "done",
             "aborted"}
  /\ Len(CITIES) <= Len(csv_rows)

\* ------------------------------------------------------------ properties
WritesOfKind(kind) == {n \in DOMAIN log : log[n].content.kind = kind}

PageWrites == {n \in DOMAIN log : log[n].key.name = "index.html"}

PairOf(n) == <<log[n].content.city, log[n].content.st>>

RootKey(name) == [dir |-> Slash, name |-> name]

\* the <loc> entries of the sitemap.xml of a finished build
SitemapEntries == fs[RootKey("sitemap.xml")].entries

UniquePairs ==
  \A a, b \in DOMAIN CITIES :
    a # b => <<CITIES[a].city, CITIES[a].st>> # <<CITIES[b].city, CITIES[b].st>>

\* C1: in every mode, the city pages of two records with distinct
\* (city, state) pairs are written at distinct output paths.
C1_CityPathsInjective ==
  \A m, n \in WritesOfKind("city") :
    PairOf(m) # PairOf(n) => log[m].key.dir # log[n].key.dir

\* the path the city page of (city, st) is to be written at, per mode
CityPathOf(mode, city, st) ==
  CASE mode \in {"regular", "cost", "regular_city_only"} ->
         Slash \o slugify(city) \o <<"-">> \o slugify(st) \o Slash
    [] mode = "state" -> Slash \o slugify(st) \o Slash \o slugify(city) \o Slash
    [] mode = "subdomain" -> Slash \o city_subdomain_slug(city, st) \o Slash

\* C2: the city page of every record is written at /{slugify(city)}-{slugify(state)}/
\* in modes regular, cost and regular_city_only, at /{slugify(state)}/{slugify(city)}/
\* in mode state and at /{subdomain_label(city,state)}/ in mode subdomain.
C2_CityPagePath ==
  /\ \A n \in WritesOfKind("city") :
       log[n].key = [dir |-> CityPathOf(SITE_MODE, log[n].content.city, log[n].content.st),
                     name |-> "index.html"]
  /\ pc = "done" =>
       \A c \in DOMAIN CITIES :
         \E n \in WritesOfKind("city") : PairOf(n) = <<CITIES[c].city, CITIES[c].st>>

C2_Witness ==
  /\ pc = "done"
  /\ Len(CITIES) = 2
  /\ {SITE_MODE} \subseteq {"state"}
  /\ Cardinality({log[n].key.dir : n \in WritesOfKind("city")}) = 2

\* the host of the site origin
SiteHost ==
  <<"e","m","e","r","g","e","n","c","y","m","a","i","n","t","e","n","a","n","c","e","e","x","p","e","r","t","s",".","c","o","m">>

C4_SitemapMatchesPages ==
  (pc = "done" /\ UniquePairs) =>
    LET pages == {k \in DOMAIN fs : k.name = "index.html"}
    IN  /\ Len(SitemapEntries) = Cardinality(pages)
        /\ \A k \in pages :
             Cardinality({n \in DOMAIN SitemapEntries : SitemapEntries[n] = fs[k].canonical}) = 1

\* C5: a build in regular mode over N records writes a sitemap of exactly
\* 4 + N entries: home, cost-index, how-to, contact and one per city.
C5_RegularSitemapCount ==
  (pc = "done" /\ SITE_MODE = "regular") =>
    /\ Len(SitemapEntries) = 4 + Len(CITIES)
    /\ SitemapEntries[1] = fs[Key(<<>>, "index.html")].canonical
    /\ SitemapEntries[2] = fs[Key(<<cost_slug>>, "index.html")].canonical
    /\ SitemapEntries[3] = fs[Key(<<howto_slug>>, "index.html")].canonical
    /\ SitemapEntries[4] = fs[Key(<<<<"c","o","n","t","a","c","t">>>>, "index.html")].canonical
    /\ \A c \in DOMAIN CITIES :
         SitemapEntries[4 + c] =
           HttpsPrefix \o SiteHost \o CityPathOf("regular", CITIES[c].city, CITIES[c].st)

C5_Witness ==
  /\ pc = "done"
  /\ SITE_MODE = "regular"
  /\ Len(CITIES) = 2
  /\ Len(SitemapEntries) = 6

C8_SubdomainPagesWithCost ==
  (pc = "done" /\ SITE_MODE = "subdomain") =>
    /\ \E n \in WritesOfKind("home") : log[n].key.dir = Slash
    /\ \E n \in WritesOfKind("cost_index") : TRUE
    /\ \E n \in WritesOfKind("contact") : log[n].key.dir = ContactPath
    /\ \A c \in DOMAIN CITIES :
         LET d == CityPathOf("subdomain", CITIES[c].city, CITIES[c].st)
         IN  /\ \E n \in WritesOfKind("city") : log[n].key.dir = d
             /\ \E n \in WritesOfKind("cost_city") : StartsWith(log[n].key.dir, d)
             /\ \E n \in WritesOfKind("contact") : log[n].key.dir = d \o <<"c","o","n","t","a","c","t","/">>

\* C8 (amended): a build in subdomain mode emits at the root the pages home
\* and contact, and for every city the pages home and contact under that
\* city's subdirectory; it emits no cost-index, how-to or cost page.
C8_SubdomainPages ==
  (pc = "done" /\ SITE_MODE = "subdomain") =>
    /\ {<<log[n].key.dir, log[n].content.kind>> : n \in PageWrites} =
         {<<Slash, "home">>, <<ContactPath, "contact">>}
         \cup {<<CityPathOf("subdomain", CITIES[c].city, CITIES[c].st), "city">> : c \in DOMAIN CITIES}
         \cup {<<CityPathOf("subdomain", CITIES[c].city, CITIES[c].st) \o <<"c","o","n","t","a","c","t","/">>,
                 "contact">> : c \in DOMAIN CITIES}
    /\ Cardinality(PageWrites) = 2 + 2 * Len(CITIES)

C8_Witness ==
  /\ pc = "done"
  /\ SITE_MODE = "subdomain"
  /\ Len(CITIES) = 1
  /\ Cardinality({k \in DOMAIN fs : k.name = "index.html"}) = 4

\* the records of state code st
RecordsOf(st) == {c \in DOMAIN CITIES : CITIES[c].st = st}

\* the cost index of record c as written in cities.csv, in hundredths
IndexOf(c) == DecimalOf(Strip(csv_rows[c].col)).hundredths

RECURSIVE SumOver(_)
SumOver(S) ==
  IF S = {} THEN 0
  ELSE LET c == CHOOSE x \in S : TRUE IN IndexOf(c) + SumOver(S \ {c})

\* C9: in state mode the price range on the page of a state is the base range
\* scaled by the arithmetic mean of the cost indexes of all records of that
\* state (rounded down); when that mean is 1.0 it is the base range itself.
C9_StatePagePrice ==
  \A n \in WritesOfKind("state") :
    LET recs  == RecordsOf(log[n].content.st)
        total == SumOver(recs)
        count == Cardinality(recs)
    IN  /\ log[n].content.price =
             << (cost_low * total) \div (100 * count), (cost_high * total) \div (100 * count) >>
        /\ total = 100 * count => log[n].content.price = <<80, 250>>

\* C10: a build in state mode writes home and contact, exactly one page at
\* /{slugify(state)}/ for every distinct state code, exactly one page at
\* /{slugify(state)}/{slugify(city)}/ for every record, and the sitemap lists
\* these pages and nothing else.
C10_StateModePages ==
  (pc = "done" /\ SITE_MODE = "state") =>
    LET states    == {CITIES[c].st : c \in DOMAIN CITIES}
        stateDirs == {Slash \o slugify(st) \o Slash : st \in states}
        cityDirs  == {Slash \o slugify(CITIES[c].st) \o Slash \o slugify(CITIES[c].city) \o Slash :
                        c \in DOMAIN CITIES}
        expected  == {Slash, ContactPath} \cup stateDirs \cup cityDirs
    IN  /\ {log[n].key.dir : n \in PageWrites} = expected
        /\ {k.dir : k \in {f \in DOMAIN fs : f.name = "index.html"}} = expected
        /\ \A d \in stateDirs \cup {Slash, ContactPath} :
             Cardinality({n \in PageWrites : log[n].key.dir = d}) = 1
        /\ Cardinality(WritesOfKind("city")) = Len(CITIES)
        /\ \A c \in DOMAIN CITIES :
             \E n \in WritesOfKind("city") :
               /\ PairOf(n) = <<CITIES[c].city, CITIES[c].st>>
               /\ log[n].key.dir = CityPathOf("state", CITIES[c].city, CITIES[c].st)
        /\ Range(SitemapEntries) = {HttpsPrefix \o SiteHost \o d : d \in expected}
        /\ Len(SitemapEntries) = 2 + Cardinality(states) + Len(CITIES)

C10_Witness ==
  /\ pc = "done"
  /\ SITE_MODE = "state"
  /\ Len(CITIES) = 2
  /\ CITIES[1].st = CITIES[2].st
  /\ CITIES[1].city # CITIES[2].city
  /\ Len(SitemapEntries) = 5

C12_NonPositiveRejected ==
  /\ pc \notin {"load", "aborted"} => \A c \in DOMAIN CITIES : IndexOf(c) > 0
  /\ \A n \in DOMAIN log :
       log[n].content.kind \in {"city", "cost_city"} => log[n].content.price[2] > 0

\* the record a city page or city cost page was written for
RecordOfWrite(n) ==
  CHOOSE c \in DOMAIN CITIES :
    CITIES[c].city = log[n].content.city /\ CITIES[c].st = log[n].content.st

\* C13: on the cost page of a city with cost index m, every dollar amount of
\* the boilerplate cost copy is the base copy's amount multiplied by m.
C13_EmbeddedAmountsScaled ==
  \A n \in WritesOfKind("cost_city") :
    LET m100 == IndexOf(RecordOfWrite(n))
    IN  log[n].content.amounts = [k \in DOMAIN cost_body |-> (cost_body[k] * m100) \div 100]

\* s matches [a-z0-9]+(-[a-z0-9]+)*
MatchesSlugPattern(s) ==
  /\ s # <<>>
  /\ \A k \in DOMAIN s : s[k] \in SlugChars \cup {"-"}
  /\ s[1] # "-" /\ s[Len(s)] # "-"
  /\ \A k \in 1..(Len(s) - 1) : ~(s[k] = "-" /\ s[k + 1] = "-")

HasAlphanumeric(s) ==
  \E k \in DOMAIN s : s[k] \in Range(UpperLetters) \cup Range(LowerLetters) \cup Range(Digits)

WithoutWhiteSpace(s) == SelectSeq(s, LAMBDA c : c \notin WhiteSpace)

\* C15: subdomain_label(city, state) is the concatenation of city and state,
\* lowercased, with every whitespace character removed.
C15_LabelHasNoWhiteSpace ==
  (pc = "return" /\ call.fn = "city_subdomain_slug") =>
    ret = WithoutWhiteSpace(Lower(call.args[1] \o call.args[2]))

\* C16: when the selected mode is not one of the five modes the build aborts
\* with an error, and the output directory and every other output file stay
\* as they were before the run.
C16_InvalidModeAborts ==
  /\ [](SITE_MODE \notin VALID_MODES =>
          /\ pc \in {"load", "check_mode", "aborted"}
          /\ pc = "aborted" => error # "")
  /\ [][SITE_MODE \notin VALID_MODES => UNCHANGED <<fs, here_files, log>>]_vars
  /\ [][(SITE_MODE \notin VALID_MODES /\ pc = "check_mode") =>
          (pc' = "aborted" /\ error' = "Invalid SITE_MODE")]_vars

\* a run with an unknown mode has aborted over a directory left by an earlier run
C16_Witness ==
  /\ SITE_MODE \notin VALID_MODES
  /\ pc = "aborted" /\ error = "Invalid SITE_MODE"
  /\ fs = StaleFs /\ here_files = {}

\* the data rows with an empty or non-numeric field
BadRows ==
  {n \in DOMAIN csv_rows :
     \/ Strip(csv_rows[n].city) = <<>>
     \/ Strip(csv_rows[n].state) = <<>>
     \/ Strip(csv_rows[n].col) = <<>>
     \/ ~DecimalOf(Strip(csv_rows[n].col)).ok}

BadTable == ~(RequiredFields \subseteq csv_fields) \/ BadRows # {}

\* C17: when the table lacks one of the columns city, state, col, or a row
\* has an empty or non-numeric field, the load aborts before any file is
\* written or removed, and for a bad row the error names the line of that row
\* (the i-th data row is line i + 1).
C17_BadTableAbortsLoad ==
  /\ [](BadTable =>
          /\ pc \in {"load", "aborted"}
          /\ pc = "aborted" =>
               IF ~(RequiredFields \subseteq csv_fields)
               THEN error = "CSV must have headers"
               ELSE /\ error \in {"Missing city/state/col", "Invalid col"}
                    /\ error_line - 1 \in BadRows
                    /\ \A n \in BadRows : error_line - 1 <= n)
  /\ [][BadTable => UNCHANGED <<fs, here_files, log>>]_vars

\* the load has aborted on the second data row, line 3, over a directory left
\* by an earlier run
C17_Witness ==
  /\ pc = "aborted" /\ error = "Invalid col" /\ error_line = 3
  /\ BadRows = {2}
  /\ fs = StaleFs

\* C18 (in subdomain mode without any base domain the build falls back to
\* root-relative city canonicals and still completes): the case does not
\* arise, a base domain is always determined from SITE_ORIGIN.
C18_BaseDomainAlwaysKnown ==
  /\ domain_from_site_origin # <<>>
  /\ error # "Need domain to generate vercel.json"
  /\ \A n \in WritesOfKind("city") :
       SITE_MODE = "subdomain" => StartsWith(log[n].content.canonical, HttpsPrefix)

\* url is scheme://host/path with a non-empty host
IsAbsoluteUrl(url) ==
  /\ StartsWith(url, HttpsPrefix) \/ StartsWith(url, HttpPrefix)
  /\ LET rest == IF StartsWith(url, HttpsPrefix) THEN SubSeq(url, Len(HttpsPrefix) + 1, Len(url))
                 ELSE SubSeq(url, Len(HttpPrefix) + 1, Len(url))
     IN  SplitFirst(rest, "/") # <<>>

\* the path of an absolute url: what follows scheme://host
UrlPath(url) ==
  LET rest == IF StartsWith(url, HttpsPrefix) THEN SubSeq(url, Len(HttpsPrefix) + 1, Len(url))
              ELSE SubSeq(url, Len(HttpPrefix) + 1, Len(url))
  IN  SubSeq(rest, Len(SplitFirst(rest, "/")) + 1, Len(rest))

\* C19: in every mode, every robots.txt the build writes has a Sitemap: line
\* whose value is an absolute URL that names the sitemap.xml of the directory
\* of that robots.txt.
C19_RobotsSitemapLine ==
  \A n \in WritesOfKind("robots") :
    LET sm == log[n].content.entries
    IN  /\ Len(sm) = 1
        /\ IsAbsoluteUrl(sm[1])
        /\ UrlPath(sm[1]) = log[n].key.dir \o <<"s","i","t","e","m","a","p",".","x","m","l">>
        /\ pc = "done" => [dir |-> log[n].key.dir, name |-> "sitemap.xml"] \in DOMAIN fs

\* a finished subdomain build with a city has written robots.txt
C19_Witness ==
  /\ pc = "done" /\ SITE_MODE = "subdomain" /\ CITIES # <<>>
  /\ WritesOfKind("robots") # {}
  /\ RootKey("robots.txt") \in DOMAIN fs

\* the writes of pages that hold a city index: the home page (the state-mode
\* home page lists states), the cost index page and the state pages
CityIndexWrites ==
  {n \in DOMAIN log :
     \/ log[n].content.kind = "home" /\ SITE_MODE # "state"
     \/ log[n].content.kind \in {"cost_index", "state"}}

\* C20: every city index listing the build emits (home page, cost-index page
\* in cost mode, state pages) orders the cities alphabetically by city name,
\* case-insensitively, whatever the order of the input rows.
C20_ListingsAlphabetical ==
  \A n \in CityIndexWrites :
    LET l == log[n].content.listing
    IN  \A a, b \in DOMAIN l : a < b => ~StrLess(Lower(l[b].city), Lower(l[a].city))

\* C21: every page the build hands to the renderer has a title that is
\* non-empty and at most 70 characters long, whatever the length of the city
\* and state names.
C21_TitleClamped ==
  (pc = "return" /\ call.fn = "make_page") => (ret # <<>> /\ Len(ret) <= 70)

\* the title of the city page of a 40-character city has been cut to 70
\* characters, the last of them the ellipsis
C21_Witness ==
  /\ pc = "return" /\ call.fn = "make_page"
  /\ call.args[1] = "city" /\ Len(call.args[2]) = 40
  /\ Len(ret) = 70 /\ ret[70] = Ellipsis

\* the files main copies into the output directory
CopiedKeys == {Key(<<>>, f) : f \in AllSrcFiles}

\* C22: in every build that passes configuration validation the previous
\* output directory is removed before the first new file is written, so after
\* a successful build the output directory holds no file that the current run
\* did not write.
C22_OutputCleared ==
  /\ (log # <<>> \/ DOMAIN fs \cap CopiedKeys # {}) =>
       \A k \in DOMAIN fs : k \in CopiedKeys \/ \E n \in DOMAIN log : log[n].key = k
  /\ pc = "done" =>
       \A k \in DOMAIN fs :
         \/ k \in CopiedKeys /\ fs[k] = Asset
         \/ \E n \in DOMAIN log :
              /\ log[n].key = k /\ log[n].content = fs[k]
              /\ \A m \in DOMAIN log : log[m].key = k => m <= n

\* a build over a directory left by an earlier run has finished, and the
\* earlier run's page is gone
C22_Witness ==
  /\ pc = "done"
  /\ StaleKey \in DOMAIN prev_out
  /\ StaleKey \notin DOMAIN fs
  /\ Key(<<>>, "index.html") \in DOMAIN fs

\* the names of the files that make a site: pages, sitemap.xml, robots.txt
SiteFileNames == {"index.html", "sitemap.xml", "robots.txt"}

\* C23: when a required static asset (the site image or any favicon file) is
\* missing, the build aborts and the output directory it leaves behind contains
\* no generated page, no sitemap.xml and no robots.txt.
C23_MissingAssetAborts ==
  /\ src_files # AllSrcFiles =>
       pc \in {"load", "check_mode", "reset", "copy_image", "copy_static", "aborted"}
  /\ (pc = "aborted" /\ error \in {"Missing image", "Missing static file"}) =>
       /\ src_files # AllSrcFiles
       /\ log = <<>>
       /\ \A k \in DOMAIN fs : k.name \notin SiteFileNames

\* the build has aborted on the missing favicon.svg after copying the image
\* and favicon.ico into the emptied directory of an earlier run
C23_Witness ==
  /\ pc = "aborted" /\ error = "Missing static file"
  /\ "favicon.svg" \notin src_files
  /\ StaleKey \in DOMAIN prev_out
  /\ DOMAIN fs = {Key(<<>>, image_filename), Key(<<>>, "favicon.ico")}

\* the positions of a build at which it writes pages
PageWritingPcs ==
  {"common_cost", "common_howto", "common_contact", "home", "city", "cost_city", "state",
   "sub_city", "sub_contact"}

\* the number of pages of the manifest of a mode over the loaded records
ManifestSize(mode) ==
  LET N == Len(CITIES)
  IN  CASE mode = "regular"           -> 4 + N
        [] mode = "cost"              -> 3 + 2 * N
        [] mode = "state"             -> 2 + Cardinality({CITIES[c].st : c \in DOMAIN CITIES}) + N
        [] mode = "subdomain"         -> 2 + 2 * N
        [] mode = "regular_city_only" -> 2 + N

\* C24: in every mode, sitemap.xml and robots.txt are written only after every
\* page of the manifest has been written, so a build that stops while writing
\* pages leaves no sitemap.xml in the output directory.
C24_SitemapAfterPages ==
  /\ \A n \in DOMAIN log :
       log[n].key.name \in {"sitemap.xml", "robots.txt"} =>
         /\ \A m \in PageWrites : m < n
         /\ Cardinality(PageWrites) = ManifestSize(SITE_MODE)
  /\ pc \in PageWritingPcs =>
       /\ RootKey("sitemap.xml") \notin DOMAIN fs
       /\ RootKey("robots.txt") \notin DOMAIN fs

\* a cost build over two records has written its seven pages, then robots.txt,
\* then sitemap.xml
C24_Witness ==
  /\ pc = "done" /\ SITE_MODE = "cost" /\ Len(CITIES) = 2
  /\ Len(log) = 9
  /\ log[8].key = RootKey("robots.txt") /\ log[9].key = RootKey("sitemap.xml")
  /\ PageWrites = 1..7

\* the canonical URLs of the pages written so far, in the order of the writes
CanonicalsWritten(kinds) ==
  LET pages == SelectSeq(log, LAMBDA w : w.key.name = "index.html" /\ w.content.kind \in kinds)
  IN  [n \in DOMAIN pages |-> pages[n].content.canonical]

\* C25 as stated: in every mode, the entries of sitemap.xml appear in the same
\* order in which the corresponding pages were written during the build.
C25_SitemapInWriteOrder ==
  pc = "done" => SitemapEntries = CanonicalsWritten(PageKinds)

\* C25 (amended): in every mode, the first entry of sitemap.xml is the home
\* page, which is written after the cost-index, how-to and contact pages of
\* the mode, and the remaining entries appear in the order in which their
\* pages were written.
C25_SitemapHomeFirst ==
  pc = "done" =>
    /\ SitemapEntries = CanonicalsWritten({"home"}) \o CanonicalsWritten(PageKinds \ {"home"})
    /\ Len(CanonicalsWritten({"home"})) = 1
    /\ \A n \in WritesOfKind("home") :
         /\ n = 1 + Cardinality({k \in {"cost", "howto", "contact"} : feature(SITE_MODE, k)})
         /\ \A m \in 1..(n - 1) : log[m].content.kind \in {"cost_index", "howto", "contact"}

\* a regular build over two records has written the home page fourth and
\* listed it first
C25_Witness ==
  /\ pc = "done" /\ SITE_MODE = "regular" /\ Len(CITIES) = 2
  /\ log[4].content.kind = "home"
  /\ SitemapEntries[1] = log[4].content.canonical
  /\ SitemapEntries[2] = log[1].content.canonical
  /\ SitemapEntries[6] = log[6].content.canonical

\* the records in the order in which the build of the mode writes their pages
ProcessingOrder ==
  IF SITE_MODE = "state"
  THEN SelectSeq(StatePlan, LAMBDA e : e.kind = "city")
  ELSE CITIES

\* the positions in ProcessingOrder of the records whose city page goes to dir
RecordsAt(dir) ==
  {n \in DOMAIN ProcessingOrder :
     CityPathOf(SITE_MODE, ProcessingOrder[n].city, ProcessingOrder[n].st) = dir}

DuplicatePairs ==
  {p \in (DOMAIN CITIES) \X (DOMAIN CITIES) :
     /\ p[1] < p[2]
     /\ CITIES[p[1]].city = CITIES[p[2]].city
     /\ CITIES[p[1]].st = CITIES[p[2]].st}

\* C26: when the input holds two records with the same (city, state), the
\* build completes without error, both records are written to the same output
\* path, the page of the record processed last at that path is the one that
\* remains, and the sitemap lists that path once per record.
C26_DuplicatesOverwrite ==
  /\ (DuplicatePairs # {} /\ src_files = AllSrcFiles /\ SITE_MODE \in VALID_MODES) =>
       (pc # "aborted" /\ error = "")
  /\ pc = "done" =>
       \A p \in DuplicatePairs :
         LET dir    == CityPathOf(SITE_MODE, CITIES[p[1]].city, CITIES[p[1]].st)
             k      == [dir |-> dir, name |-> "index.html"]
             at     == RecordsAt(dir)
             last   == CHOOSE n \in at : \A m \in at : m <= n
             writes == {n \in WritesOfKind("city") : log[n].key = k}
         IN  /\ Cardinality(at) >= 2
             /\ Cardinality(writes) = Cardinality(at)
             /\ k \in DOMAIN fs
             /\ fs[k].kind = "city"
             /\ fs[k].price = location_cost_section(ProcessingOrder[last].col)
             /\ at = {p[1], p[2]} => fs[k].price = location_cost_section(CITIES[p[2]].col)
             /\ Cardinality({n \in DOMAIN SitemapEntries : SitemapEntries[n] = fs[k].canonical})
                  = Cardinality(at)

\* a regular build over Austin, TX with index 1.1 and then Austin, TX with
\* index 0.9 has finished: the page left is that of the second record, and the
\* sitemap lists its path twice
C26_Witness ==
  /\ pc = "done" /\ SITE_MODE = "regular" /\ error = ""
  /\ DuplicatePairs = {<<1, 2>>}
  /\ CITIES[1].col # CITIES[2].col
  /\ fs[Key(<< <<"a","u","s","t","i","n","-","t","x">> >>, "index.html")].price = <<72, 225>>
  /\ Cardinality({n \in DOMAIN SitemapEntries :
                    SitemapEntries[n] = HttpsPrefix \o SiteHost \o <<"/","a","u","s","t","i","n","-","t","x","/">>}) = 2

\* the records of a table in the order in which the build of the mode writes
\* their pages
ProcessingOrderOf(cities) ==
  IF SITE_MODE = "state"
  THEN SelectSeq(StatePlanOf(cities_by_state(cities)), LAMBDA e : e.kind = "city")
  ELSE cities

\* the price range of the city page a build over the table leaves at dir: that
\* of the record written there last
PriceLeftAt(cities, dir) ==
  LET order == ProcessingOrderOf(cities)
      at    == {n \in DOMAIN order : CityPathOf(SITE_MODE, order[n].city, order[n].st) = dir}
      last  == CHOOSE n \in at : \A m \in at : m <= n
  IN  location_cost_section(order[last].col)

\* the table with its rows permuted by f
Permuted(cities, f) == [n \in DOMAIN cities |-> cities[f[n]]]

CityPagesLeft == {k \in DOMAIN fs : fs[k].kind = "city"}

\* what a finished build leaves is what PriceLeftAt says of its table
PriceLeftAtIsWhatIsLeft ==
  pc = "done" => \A k \in CityPagesLeft : fs[k].price = PriceLeftAt(CITIES, k.dir)

\* C27: for input records with unique (city, state) pairs, permuting the input
\* rows changes neither the set of output paths, nor any page's canonical URL,
\* nor any page's displayed price range, nor the per-state average cost index.
C27_RowOrderInsignificant ==
  (pc = "done" /\ UniquePairs) =>
    \A f \in Permutations(DOMAIN CITIES) :
      LET P == Permuted(CITIES, f)
      IN  /\ {CityPathOf(SITE_MODE, P[n].city, P[n].st) : n \in DOMAIN P}
               = {k.dir : k \in CityPagesLeft}
          /\ generate_state_to_col_map(P) = STATE_TO_COL_MAP
          /\ \A k \in CityPagesLeft : PriceLeftAt(P, k.dir) = fs[k].price

\* the path a navigation link leads to
LinkPath(href) == IF StartsWith(href, HttpsPrefix) \/ StartsWith(href, HttpPrefix) THEN UrlPath(href) ELSE href

\* the build has written a page of the given kind where the link leads to
WrittenAt(kind, href) ==
  \E m \in WritesOfKind(kind) : log[m].key = [dir |-> LinkPath(href), name |-> "index.html"]

\* C28: in every mode, a Cost link (respectively a How-To link) appears in the
\* navigation of a generated page if and only if the cost-index page
\* (respectively the how-to page) is written in that same build.
C28_NavLinksMatchPages ==
  pc = "done" =>
    \A n \in PageWrites :
      /\ log[n].content.nav_cost <=> WrittenAt("cost_index", href_cost_index(SITE_MODE))
      /\ log[n].content.nav_howto <=> WrittenAt("howto", href_howto_index(SITE_MODE))

\* a cost build has finished: its city pages link to the cost index, which it
\* wrote, and not to the how-to page, which it did not write
C28_Witness ==
  /\ pc = "done" /\ SITE_MODE = "cost"
  /\ \E n \in WritesOfKind("city") : log[n].content.nav_cost /\ ~log[n].content.nav_howto
  /\ WritesOfKind("cost_index") # {}
  /\ WritesOfKind("howto") = {}

IsTwoLetterCode(st) ==
  Len(st) = 2 /\ \A k \in DOMAIN st : st[k] \in Range(UpperLetters) \cup Range(LowerLetters)

\* C29: in every mode, for every record with a non-empty city and a two-letter
\* state code, the city page's output path differs from the output path of
\* every fixed page of the same build (home, contact, cost-index, how-to).
C29_CityPathNotFixedPath ==
  (pc = "return" /\ call.fn = "city_page_dir"
     /\ call.args[2] # <<>> /\ IsTwoLetterCode(call.args[3])) =>
    ret \notin fixed_page_dirs(call.args[1])

\* the host of an absolute url
HostOf(url) ==
  SplitFirst(IF StartsWith(url, HttpsPrefix) THEN SubSeq(url, Len(HttpsPrefix) + 1, Len(url))
             ELSE SubSeq(url, Len(HttpPrefix) + 1, Len(url)), "/")

\* C30: in subdomain mode, for every input record the host label used in the
\* city's canonical URL consists only of characters in [a-z0-9-] and is not
\* "www", so the host pattern of the generated routing rule matches every
\* city's canonical host and routes it to that city's subdirectory.
C30_RoutingRuleMatchesCities ==
  SITE_MODE = "subdomain" =>
    \A n \in WritesOfKind("city") :
      LET label == city_subdomain_slug(log[n].content.city, log[n].content.st)
          route == vercel_route(HostOf(log[n].content.canonical), domain_from_site_origin)
      IN  /\ \A k \in DOMAIN label : label[k] \in SlugChars \cup {"-"}
          /\ label # <<"w","w","w">>
          /\ route.matches
          /\ route.dest = log[n].key.dir

====
